---------------------------- MODULE Spec2Model ----------------------------
(* A model of blend2xsi.py: the scene graph (XSI, Frame, the shared name  *)
(* table), the geometry value types (Mesh, Material, AnimationKey,        *)
(* Envelope) and the Writer that linearises them into XSI 1.0 text.       *)
(*                                                                        *)
(* Text is modelled as a sequence of tokens (strings); a written line is  *)
(* a record [t |-> indent, data |-> tokens].  A frame name is a sequence  *)
(* of one-character strings, so that Writer.get_safe_name can be applied  *)
(* character by character.                                                *)
EXTENDS Integers, Sequences, FiniteSets, TLC

VARIABLES
    DUPLICATE_FRAME_NOEXCEPT, \* the module global of line 18
    frames,        \* every Frame object created, indexed by creation order
    xsi_frames,    \* XSI.frames: the child list of the document root
    frame_table,   \* XSI.frame_table: name -> Frame
    result,        \* the last call whose outcome is examined, and how it ended
    file,          \* the lines Writer has written to the destination
    readback,      \* what reading the written file back produced
    animkey,       \* one AnimationKey track under test
    listin,        \* the argument of a list-writing call under test
    mesh           \* one Mesh under test

vars == <<DUPLICATE_FRAME_NOEXCEPT, frames, xsi_frames, frame_table, result,
          file, readback, animkey, listin, mesh>>

graphvars == <<DUPLICATE_FRAME_NOEXCEPT, frames, xsi_frames, frame_table>>

-----------------------------------------------------------------------------
(* Bounds of the model and input alphabets.                                *)

MaxFrames == 3

\* Frame names offered to add_frame: the empty name, a clean name, and two
\* distinct names that differ only in a character outside the allow-list.
Names == { <<>>, <<"a">>, <<"a", "_">>, <<"a", " ">> }

\* The XSI root as a container; Frames are numbered from 1.
XSI == 0

\* Python's None for an optional object reference, and a reference to one.
None == <<>>
Ref(x) == <<x>>

Range(s) == { s[i] : i \in DOMAIN s }

-----------------------------------------------------------------------------
(* Scene graph: _FrameContainer, XSI, Frame.                               *)

\* Frame.__init__
Frame(name) ==
    [ name |-> name, is_bone |-> FALSE,
      transform |-> None, pose |-> None, mesh |-> None,
      parent |-> None, frames |-> <<>>,
      animation_keys |-> <<>>, envelopes |-> <<>> ]

\* The child list of a container (self.frames of the XSI or of a Frame).
ChildList(fr, top, c) == IF c = XSI THEN top ELSE fr[c].frames

Containers == {XSI} \cup DOMAIN frames

\* The mutant of IsDuplicate: the tolerance flag tested without its "not".
IsDuplicateFlagInverted(name) ==
    name \in DOMAIN frame_table /\ DUPLICATE_FRAME_NOEXCEPT

\* add_frame, line 32: the condition under which DuplicateFrame is raised.
IsDuplicate(name) ==
    name \in DOMAIN frame_table /\ ~DUPLICATE_FRAME_NOEXCEPT

\* The mutant of NewParent: the root is recorded as a parent like any other.
NewParentAlwaysSelf(self) == Ref(self)

\* add_frame, line 36: the parent given to the new Frame.
NewParent(self) == IF self # XSI THEN Ref(self) ELSE None

\* The mutant of TablePut: an existing entry is kept (first write wins).
TablePutKeepFirst(table, name, frame) ==
    [ n \in DOMAIN table \cup {name} |->
        IF n \in DOMAIN table THEN table[n] ELSE frame ]

\* add_frame, line 39: self.xsi.frame_table[name] = frame
TablePut(table, name, frame) ==
    [ n \in DOMAIN table \cup {name} |-> IF n = name THEN frame ELSE table[n] ]

\* get_all_frames: pre-order over a child list, the container not included.
RECURSIVE GetAllFrames(_, _)
GetAllFrames(fr, list) ==
    IF list = <<>> THEN <<>>
    ELSE <<Head(list)>> \o GetAllFrames(fr, fr[Head(list)].frames)
                        \o GetAllFrames(fr, Tail(list))

\* find_frame: the first frame of the traversal with that name, or None.
FindFrame(fr, list, name) ==
    LET all == GetAllFrames(fr, list)
        hits == { i \in DOMAIN all : fr[all[i]].name = name }
    IN  IF hits = {} THEN None
        ELSE Ref(all[CHOOSE i \in hits : \A j \in hits : i <= j])

\* add_frame on container self, the name not rejected.
AddFrame(self, name) ==
    /\ Len(frames) < MaxFrames
    /\ ~IsDuplicate(name)
    /\ LET id == Len(frames) + 1
           frame == [Frame(name) EXCEPT !.parent = NewParent(self)]
           grown == Append(frames, frame)
       IN  /\ frame_table' = TablePut(frame_table, name, id)
           /\ IF self = XSI
              THEN /\ xsi_frames' = Append(xsi_frames, id)
                   /\ frames' = grown
              ELSE /\ xsi_frames' = xsi_frames
                   /\ frames' = [grown EXCEPT ![self].frames = Append(@, id)]
           /\ result' = [ op |-> "add_frame", self |-> self, name |-> name,
                          raised |-> "", ret |-> Ref(id) ]
    /\ UNCHANGED <<DUPLICATE_FRAME_NOEXCEPT>>

\* add_frame on container self, the name rejected: DuplicateFrame is raised
\* before anything is created or stored.
AddFrameDuplicate(self, name) ==
    /\ IsDuplicate(name)
    /\ result' = [ op |-> "add_frame", self |-> self, name |-> name,
                   raised |-> "DuplicateFrame", ret |-> None ]
    /\ UNCHANGED graphvars

NoResult == [ op |-> "", self |-> XSI, name |-> <<>>, raised |-> "", ret |-> None ]

\* XSI.__init__ without a file path.
InitGraph ==
    /\ frames = <<>>
    /\ xsi_frames = <<>>
    /\ frame_table = << >>
    /\ result = NoResult

InitIdle ==
    /\ file = <<>>
    /\ readback = <<>>
    /\ animkey = <<>>
    /\ listin = <<>>
    /\ mesh = <<>>

idlevars == <<file, readback, animkey, listin, mesh>>

-----------------------------------------------------------------------------
(* Geometry value types: Matrix, Mesh, Material.                           *)

\* Matrix.__init__: the four rows exactly as supplied.
Matrix(right, up, front, posit) ==
    [ right |-> right, up |-> up, front |-> front, posit |-> posit ]

\* Mesh.__init__
Mesh(name) ==
    [ name |-> name, vertices |-> <<>>, faces |-> <<>>,
      normal_vertices |-> <<>>, normal_faces |-> <<>>,
      uv_vertices |-> <<>>, uv_faces |-> <<>>,
      face_materials |-> <<>>,
      vertex_colors |-> <<>>, vertex_color_faces |-> <<>> ]

\* Material.__init__ with every colour supplied at its full channel count.
Material(diffuse, hardness, specular, ambient, emissive, shading_type, texture) ==
    [ diffuse |-> diffuse, hardness |-> hardness, specular |-> specular,
      ambient |-> ambient, emissive |-> emissive,
      shading_type |-> shading_type, texture |-> texture ]

\* The mutant of MaterialEq: the texture is left out of the comparison.
MaterialEqNoTexture(a, b) ==
    /\ a.diffuse = b.diffuse
    /\ a.hardness = b.hardness
    /\ a.specular = b.specular
    /\ a.ambient = b.ambient
    /\ a.emissive = b.emissive
    /\ a.shading_type = b.shading_type

\* Material.__eq__
MaterialEq(a, b) ==
    /\ a.texture = b.texture
    /\ a.diffuse = b.diffuse
    /\ a.hardness = b.hardness
    /\ a.specular = b.specular
    /\ a.ambient = b.ambient
    /\ a.emissive = b.emissive
    /\ a.shading_type = b.shading_type

\* "material in materials" and materials.index(material), both by __eq__.
InList(material, materials) ==
    \E i \in DOMAIN materials : MaterialEq(materials[i], material)

IndexOf(material, materials) ==
    (CHOOSE i \in DOMAIN materials :
        /\ MaterialEq(materials[i], material)
        /\ \A j \in DOMAIN materials :
              MaterialEq(materials[j], material) => i <= j) - 1

\* Mesh.get_material_indices: the loop over face_materials, from a given
\* pair of accumulators.
RECURSIVE MaterialIndicesFrom(_, _, _)
MaterialIndicesFrom(face_materials, indices, materials) ==
    IF face_materials = <<>>
    THEN [ indices |-> indices, materials |-> materials ]
    ELSE LET material == Head(face_materials)
             grown == IF ~InList(material, materials)
                      THEN Append(materials, material)
                      ELSE materials
         IN  MaterialIndicesFrom(Tail(face_materials),
                                 Append(indices, IndexOf(material, grown)),
                                 grown)

GetMaterialIndices(m) == MaterialIndicesFrom(m.face_materials, <<>>, <<>>)

-----------------------------------------------------------------------------
(* Writer.                                                                 *)

\* Writer.write: one line, "\t" * t + data + "\n".
W(t, data) == [ t |-> t, data |-> data ]

RECURSIVE Cat(_)
Cat(seqs) == IF seqs = <<>> THEN <<>> ELSE Head(seqs) \o Cat(Tail(seqs))

\* sep.join(tokens)
RECURSIVE Join(_, _)
Join(tokens, sep) ==
    IF Len(tokens) <= 1 THEN tokens
    ELSE <<Head(tokens), sep>> \o Join(Tail(tokens), sep)

\* "%d" and "%f" of an integer-valued number.
FmtD(x) == ToString(x)
FmtF(x) == ToString(x) \o ".000000"

\* A format string made of conversions each followed by ";", applied to a
\* vector with one component per conversion ("%f;%f;%f;", "%d;%f;", ...).
Fmt(format, vector) ==
    Cat([ i \in DOMAIN format |->
            << IF format[i] = "d" THEN FmtD(vector[i]) ELSE FmtF(vector[i]), ";" >> ])

Allowed ==
    { "Q","W","E","R","T","Y","U","I","O","P","A","S","D","F","G","H","J","K",
      "L","Z","X","C","V","B","N","M","q","w","e","r","t","y","u","i","o","p",
      "a","s","d","f","g","h","j","k","l","z","x","c","v","b","n","m",
      "1","2","3","4","5","6","7","8","9","0","_","-" }

\* Writer.get_safe_name with the default substitute.
SafeName(name) ==
    LET n == IF name = <<>> THEN <<"u","n","n","a","m","e","d">> ELSE name
    IN  [ i \in DOMAIN n |-> IF n[i] \in Allowed THEN n[i] ELSE "_" ]

\* s[0:-1]
AllButLast(s) == SubSeq(s, 1, Len(s) - 1)

\* The mutant of WriteVectorList: every element, the last too, gets a comma.
WriteVectorListAllCommas(t, format, vectors) ==
    <<W(t, <<FmtD(Len(vectors)), ";">>)>>
    \o [ i \in DOMAIN vectors |-> W(t, Fmt(format, vectors[i]) \o <<",">>) ]

\* Writer.write_vector_list
WriteVectorList(t, format, vectors) ==
    <<W(t, <<FmtD(Len(vectors)), ";">>)>>
    \o IF vectors = <<>> THEN <<>>
       ELSE [ i \in DOMAIN AllButLast(vectors) |->
                W(t, Fmt(format, vectors[i]) \o <<",">>) ]
            \o <<W(t, Fmt(format, vectors[Len(vectors)]) \o <<";">>)>>

\* make_face of write_face_list
MakeFace(face) ==
    <<FmtD(Len(face)), ";">>
    \o Join([ i \in DOMAIN face |-> FmtD(face[i]) ], ",") \o <<";">>

\* Writer.write_face_list
WriteFaceList(t, faces, indexed) ==
    <<W(t, <<FmtD(Len(faces)), ";">>)>>
    \o IF faces = <<>> THEN <<>>
       ELSE IF ~indexed
       THEN [ i \in DOMAIN AllButLast(faces) |->
                W(t, MakeFace(faces[i]) \o <<",">>) ]
            \o <<W(t, MakeFace(faces[Len(faces)]) \o <<";">>)>>
       ELSE [ i \in DOMAIN AllButLast(faces) |->
                W(t, <<FmtD(i - 1), ";">> \o MakeFace(faces[i]) \o <<",">>) ]
            \o <<W(t, <<FmtD(Len(faces) - 1), ";">>
                      \o MakeFace(faces[Len(faces)]) \o <<";">>)>>

\* Writer.write_face_vertices, for faces that are non-empty lists of valid
\* 0-based indices into vertices.
WriteFaceVertices(t, format, faces, vertices) ==
    <<W(t, <<FmtD(Len(vertices)), ";">>)>>
    \o IF vertices = <<>> THEN <<>>
       ELSE Cat([ f \in DOMAIN faces |->
                [ i \in DOMAIN AllButLast(faces[f]) |->
                    W(t, Fmt(format, vertices[faces[f][i] + 1]) \o <<",">>) ]
                \o <<W(t, Fmt(format, vertices[faces[f][Len(faces[f])] + 1])
                          \o <<";">>)>> ])

\* write_animationkeys formats every key with the width of the first one;
\* "%" raises TypeError when a key has another width.
AnimationKeysWritable(keys) ==
    \A k \in DOMAIN keys : Len(keys[k][2]) = Len(keys[1][2])

\* One line of write_animationkeys.
AnimationKeyLine(t, key, vector_size, term) ==
    W(t, <<FmtD(key[1]), "; ", FmtD(vector_size), "; ">>
         \o Join([ i \in DOMAIN key[2] |-> FmtF(key[2][i]) ], ", ")
         \o <<";;", term>>)

\* Writer.write_animationkeys, for keys it can format.
WriteAnimationKeys(t, keys) ==
    <<W(t, <<FmtD(Len(keys)), ";">>)>>
    \o IF keys = <<>> THEN <<>>
       ELSE LET vector_size == Len(keys[1][2]) IN
            [ i \in DOMAIN AllButLast(keys) |->
                AnimationKeyLine(t, keys[i], vector_size, ",") ]
            \o <<AnimationKeyLine(t, keys[Len(keys)], vector_size, ";")>>

\* Writer.write_matrix
WriteMatrix(t, matrix, block_name) ==
    LET row(v, term) == W(t + 1, Join([ i \in DOMAIN v |-> FmtF(v[i]) ], ",")
                                 \o <<term>>)
    IN  << W(t, <<block_name, " {">>),
           row(matrix.right, ","), row(matrix.up, ","),
           row(matrix.front, ","), row(matrix.posit, ";;"),
           W(t, <<"}">>) >>

\* Writer.write_material
WriteMaterial(t, material) ==
    LET colour(v) == AllButLast(Fmt([ i \in DOMAIN v |-> "f" ], v)) \o <<";;">>
    IN  << W(t, <<"SI_Material", " {">>),
           W(t + 1, colour(material.diffuse)),
           W(t + 1, <<FmtF(material.hardness), ";">>),
           W(t + 1, colour(material.specular)),
           W(t + 1, colour(material.emissive)),
           W(t + 1, <<FmtD(material.shading_type), ";">>),
           W(t + 1, colour(material.ambient)) >>
        \o (IF material.texture # None
            THEN << W(t + 1, <<"SI_Texture2D", " {">>),
                    W(t + 2, <<"\"", material.texture[1], "\"", ";">>),
                    W(t + 1, <<"}">>) >>
            ELSE <<>>)
        \o << W(t, <<"}">>) >>

\* The MeshMaterialList block of write_mesh (lines 521-535).
WriteMeshMaterialList(t, m) ==
    IF m.face_materials # <<>> /\ m.faces # <<>>
    THEN LET got == GetMaterialIndices(m)
             face_material_indices == got.indices
             materials == got.materials
         IN  << W(t + 1, <<"MeshMaterialList", " {">>),
                W(t + 2, <<FmtD(Len(materials)), ";">>),
                W(t + 2, <<FmtD(Len(face_material_indices)), ";">>) >>
             \o [ i \in DOMAIN AllButLast(face_material_indices) |->
                    W(t + 2, <<FmtD(face_material_indices[i]), ",">>) ]
             \o << W(t + 2, <<FmtD(face_material_indices[
                                     Len(face_material_indices)]), ";">>) >>
             \o Cat([ i \in DOMAIN materials |->
                        WriteMaterial(t + 2, materials[i]) ])
             \o << W(t + 1, <<"}">>) >>
    ELSE <<>>

\* Writer.write_mesh
WriteMesh(t, m, name) ==
    << W(t, <<"Mesh ">> \o SafeName(name) \o <<" {">>) >>
    \o (IF m.vertices # <<>>
        THEN WriteVectorList(t + 1, <<"f", "f", "f">>, m.vertices)
             \o (IF m.faces # <<>>
                 THEN WriteFaceList(t + 1, m.faces, FALSE) ELSE <<>>)
             \o WriteMeshMaterialList(t, m)
             \o (IF m.normal_vertices # <<>>
                 THEN << W(t + 1, <<"SI_MeshNormals", " {">>) >>
                      \o WriteVectorList(t + 2, <<"f", "f", "f">>, m.normal_vertices)
                      \o (IF m.normal_faces # <<>>
                          THEN WriteFaceList(t + 2, m.normal_faces, TRUE)
                          ELSE <<>>)
                      \o << W(t + 1, <<"}">>) >>
                 ELSE <<>>)
             \o (IF m.uv_vertices # <<>>
                 THEN << W(t + 1, <<"SI_MeshTextureCoords", " {">>) >>
                      \o WriteVectorList(t + 2, <<"f", "f">>, m.uv_vertices)
                      \o (IF m.uv_faces # <<>>
                          THEN WriteFaceList(t + 2, m.uv_faces, TRUE)
                          ELSE <<>>)
                      \o << W(t + 1, <<"}">>) >>
                 ELSE <<>>)
             \o (IF m.vertex_colors # <<>> /\ m.vertex_color_faces # <<>>
                 THEN << W(t + 1, <<"SI_MeshVertexColors", " {">>) >>
                      \o WriteFaceVertices(t + 2, <<"f", "f", "f", "f">>,
                                           m.vertex_color_faces, m.vertex_colors)
                      \o WriteFaceList(t + 2, m.vertex_color_faces, TRUE)
                      \o << W(t + 1, <<"}">>) >>
                 ELSE <<>>)
        ELSE <<>>)
    \o << W(t, <<"}">>) >>

\* Envelope.__init__ without vertices.
Envelope(bone) == [ bone |-> bone, vertices |-> <<>> ]

\* For a sequence of frame ids, those whose field is a non-empty list.
RECURSIVE Having(_, _, _)
Having(fr, ids, field) ==
    IF ids = <<>> THEN <<>>
    ELSE (IF fr[Head(ids)][field] # <<>> THEN <<Head(ids)>> ELSE <<>>)
         \o Having(fr, Tail(ids), field)

\* get_animated_frames, get_skinned_frames
GetAnimatedFrames(fr, top) == Having(fr, GetAllFrames(fr, top), "animation_keys")
GetSkinnedFrames(fr, top) == Having(fr, GetAllFrames(fr, top), "envelopes")

RECURSIVE SumLen(_)
SumLen(seqs) == IF seqs = <<>> THEN 0 ELSE Len(Head(seqs)) + SumLen(Tail(seqs))

\* get_envelope_count
GetEnvelopeCount(fr, top) ==
    LET skinned == GetSkinnedFrames(fr, top)
    IN  SumLen([ i \in DOMAIN skinned |-> fr[skinned[i]].envelopes ])

\* The mutant of WriteFrame: the block is closed before its sub-frames are
\* written, so children follow their parent instead of nesting in it.
RECURSIVE WriteFrameChildrenOutside(_, _, _)
WriteFrameChildrenOutside(fr, t, id) ==
    << W(t, <<"Frame ", "frm-">> \o SafeName(fr[id].name) \o <<" {">>),
       W(t, <<"}">>) >>
    \o Cat([ k \in DOMAIN fr[id].frames |->
               WriteFrameChildrenOutside(fr, t, fr[id].frames[k]) ])

\* Writer.write_frame
RECURSIVE WriteFrame(_, _, _)
WriteFrame(fr, t, id) ==
    LET frame == fr[id] IN
    << W(t, <<"Frame ", "frm-">> \o SafeName(frame.name) \o <<" {">>) >>
    \o (IF frame.transform # None
        THEN WriteMatrix(t + 1, frame.transform[1], "FrameTransformMatrix")
        ELSE <<>>)
    \o (IF frame.pose # None
        THEN WriteMatrix(t + 1, frame.pose[1], "SI_FrameBasePoseMatrix")
        ELSE <<>>)
    \o (IF frame.mesh # None
        THEN WriteMesh(t + 1, frame.mesh[1],
                       IF frame.mesh[1].name # None THEN frame.mesh[1].name
                       ELSE frame.name)
        ELSE <<>>)
    \o Cat([ k \in DOMAIN frame.frames |-> WriteFrame(fr, t + 1, frame.frames[k]) ])
    \o << W(t, <<"}">>) >>

\* Writer.write_animation
WriteAnimation(fr, t, id) ==
    LET frame == fr[id] IN
    << W(t, <<"Animation ", "anim-">> \o SafeName(frame.name) \o <<" {">>),
       W(t + 1, <<"{", "frm-">> \o SafeName(frame.name) \o <<"}">>) >>
    \o Cat([ k \in DOMAIN frame.animation_keys |->
               << W(t + 1, <<"SI_AnimationKey", " {">>),
                  W(t + 2, <<FmtD(frame.animation_keys[k].key_type), ";">>) >>
               \o WriteAnimationKeys(t + 2, frame.animation_keys[k].keys)
               \o << W(t + 1, <<"}">>) >> ])
    \o << W(t, <<"}">>) >>

\* Writer.write_envelope
WriteEnvelope(fr, t, id, envelope) ==
    << W(t, <<"SI_Envelope", " {">>),
       W(t + 1, <<"\"", "frm-">> \o SafeName(fr[id].name) \o <<"\"", ";">>),
       W(t + 1, <<"\"", "frm-">> \o SafeName(fr[envelope.bone].name) \o <<"\"", ";">>) >>
    \o WriteVectorList(t + 1, <<"d", "f">>, envelope.vertices)
    \o << W(t, <<"}">>) >>

\* The header and the three fixed blocks of write_xsi (lines 436-453).
Preamble ==
    << W(0, <<"xsi 0101txt 0032", "\n">>),
       W(0, <<"SI_CoordinateSystem coord", " {">>),
       W(1, <<"1", ";">>), W(1, <<"0", ";">>), W(1, <<"1", ";">>),
       W(1, <<"0", ";">>), W(1, <<"2", ";">>), W(1, <<"5", ";">>),
       W(0, <<"}", "\n">>),
       W(0, <<"SI_Angle", " {">>),
       W(1, <<"0", ";">>),
       W(0, <<"}", "\n">>),
       W(0, <<"SI_Ambience", " {">>),
       W(1, <<"0.000000; 0.000000; 0.000000;;">>),
       W(0, <<"}">>) >>

\* The mutant of WriteSections: the envelope list is written before the
\* animation set.
WriteSectionsEnvelopesFirst(frameBlocks, animationSet, envelopeList) ==
    frameBlocks \o envelopeList \o animationSet

\* The order in which write_xsi emits its three model-derived sections.
WriteSections(frameBlocks, animationSet, envelopeList) ==
    frameBlocks \o animationSet \o envelopeList

\* Writer.write_xsi
WriteXsi(fr, top) ==
    LET animated_frames == GetAnimatedFrames(fr, top)
        skinned_frames == GetSkinnedFrames(fr, top)
        frameBlocks ==
            Cat([ k \in DOMAIN top |-> << W(0, <<>>) >> \o WriteFrame(fr, 0, top[k]) ])
        animationSet ==
            IF animated_frames # <<>>
            THEN << W(0, <<"\n", "AnimationSet", " {">>) >>
                 \o Cat([ k \in DOMAIN animated_frames |->
                            WriteAnimation(fr, 1, animated_frames[k]) ])
                 \o << W(0, <<"}">>) >>
            ELSE <<>>
        envelopeList ==
            IF skinned_frames # <<>>
            THEN << W(0, <<"\n", "SI_EnvelopeList", " {">>),
                    W(1, <<FmtD(GetEnvelopeCount(fr, top)), ";">>) >>
                 \o Cat([ k \in DOMAIN skinned_frames |->
                            Cat([ e \in DOMAIN fr[skinned_frames[k]].envelopes |->
                                    WriteEnvelope(fr, 1, skinned_frames[k],
                                        fr[skinned_frames[k]].envelopes[e]) ]) ])
                 \o << W(0, <<"}">>) >>
            ELSE <<>>
    IN  Preamble \o WriteSections(frameBlocks, animationSet, envelopeList)

-----------------------------------------------------------------------------
(* The scene graph under add_frame alone, with either setting of the       *)
(* duplicate tolerance.                                                    *)

Init ==
    /\ DUPLICATE_FRAME_NOEXCEPT \in BOOLEAN
    /\ InitGraph
    /\ InitIdle

Next ==
    \/ \E self \in Containers, name \in Names :
          AddFrame(self, name) /\ UNCHANGED idlevars
    \/ \E self \in Containers, name \in Names :
          AddFrameDuplicate(self, name) /\ UNCHANGED idlevars

Spec == Init /\ [][Next]_vars


-----------------------------------------------------------------------------
(* Properties of the scene graph.                                          *)

NamesUsed == { frames[i].name : i \in DOMAIN frames }

TableValues == { frame_table[n] : n \in DOMAIN frame_table }

\* How many times frame id occurs in the child lists of all containers.
Occurrences(fr, top, id) ==
    Cardinality({ <<c, k>> \in ({XSI} \cup DOMAIN fr) \X (1..Len(fr)) :
                    /\ k \in DOMAIN ChildList(fr, top, c)
                    /\ ChildList(fr, top, c)[k] = id })

\* The last step was an add_frame call, described by result'.
TableOnePerName ==
    /\ DOMAIN frame_table = NamesUsed
    /\ Cardinality(DOMAIN frame_table) = Len(frames)

DuplicateRejected ==
    (result'.op = "add_frame" /\ result'.name \in DOMAIN frame_table)
    => /\ result'.raised = "DuplicateFrame"
       /\ result'.ret = None
       /\ frame_table' = frame_table
       /\ frames' = frames
       /\ xsi_frames' = xsi_frames

\* C1: with DUPLICATE_FRAME_NOEXCEPT = False the name table has exactly one
\* entry per distinct name used (and no name was used by two frames); an
\* add_frame whose name is already in the table raises DuplicateFrame and
\* leaves the table and every child list as they were.
C1_NameUniqueness ==
    /\ [](~DUPLICATE_FRAME_NOEXCEPT => TableOnePerName)
    /\ [][~DUPLICATE_FRAME_NOEXCEPT => DuplicateRejected]_vars

C1_Witness ==
    /\ ~DUPLICATE_FRAME_NOEXCEPT
    /\ result.raised = "DuplicateFrame"
    /\ Len(frames) >= 2
    /\ \E i \in DOMAIN frames : frames[i].frames # <<>>

\* C2: with DUPLICATE_FRAME_NOEXCEPT = False the frames yielded by the
\* root's get_all_frames() are exactly the values of the name table, each
\* yielded once and stored once, under its own name; each frame is in
\* exactly one container's child list and its parent is that container, or
\* None when the container is the XSI root.
C2_TableMatchesGraph ==
    ~DUPLICATE_FRAME_NOEXCEPT =>
        LET all == GetAllFrames(frames, xsi_frames) IN
        /\ Range(all) = TableValues
        /\ Range(all) = DOMAIN frames
        /\ Len(all) = Cardinality(Range(all))
        /\ \A id \in DOMAIN frames :
              /\ frames[id].name \in DOMAIN frame_table
              /\ frame_table[frames[id].name] = id
              /\ Cardinality({ n \in DOMAIN frame_table : frame_table[n] = id }) = 1
              /\ Occurrences(frames, xsi_frames, id) = 1
              /\ \A c \in Containers :
                    id \in Range(ChildList(frames, xsi_frames, c))
                    => frames[id].parent = (IF c = XSI THEN None ELSE Ref(c))

C2_Witness ==
    /\ ~DUPLICATE_FRAME_NOEXCEPT
    /\ Len(frames) = MaxFrames
    /\ Len(xsi_frames) >= 2
    /\ \E i \in DOMAIN frames : frames[i].parent # None

\* The frames that carried name n before the step.
Older(n) == { i \in DOMAIN frames : frames[i].name = n }

ToleratedDuplicate ==
    (result'.op = "add_frame" /\ result'.name \in DOMAIN frame_table)
    => /\ result'.raised = ""
       /\ result'.ret # None
       /\ LET new == result'.ret[1]
              c == result'.self
              n == result'.name
          IN  /\ ChildList(frames', xsi_frames', c)
                    = Append(ChildList(frames, xsi_frames, c), new)
              /\ frames'[new].name = n
              /\ frame_table'[n] = new
              /\ Older(n) # {}
              /\ \A o \in Older(n) :
                    /\ o # new
                    /\ frame_table'[n] # o
                    /\ o \in Range(GetAllFrames(frames', xsi_frames'))
                    /\ \A c2 \in Containers :
                          o \in Range(ChildList(frames, xsi_frames, c2))
                          => o \in Range(ChildList(frames', xsi_frames', c2))

\* C3: with DUPLICATE_FRAME_NOEXCEPT = True, add_frame(name) for a name
\* already in the name table raises nothing, appends the new Frame to the
\* caller's child list and makes the table map the name to the new Frame;
\* every older Frame of that name stays in its container's child list and
\* in get_all_frames(), and is not what the table returns for the name.
C3_LastWriteWins ==
    [][DUPLICATE_FRAME_NOEXCEPT => ToleratedDuplicate]_vars

C3_Witness ==
    /\ DUPLICATE_FRAME_NOEXCEPT
    /\ \E i, j \in DOMAIN frames :
          /\ i < j
          /\ frames[i].name = frames[j].name
          /\ frame_table[frames[i].name] = j
          /\ i \in Range(GetAllFrames(frames, xsi_frames))
          /\ FindFrame(frames, xsi_frames, frames[i].name) = Ref(i)


-----------------------------------------------------------------------------
(* The list writers applied to bounded inputs.                             *)

MaxLen == 3

RECURSIVE SeqsUpTo(_, _)
SeqsUpTo(S, n) ==
    IF n = 0 THEN { <<>> }
    ELSE SeqsUpTo(S, n - 1)
         \cup { Append(s, x) : s \in { q \in SeqsUpTo(S, n - 1) : Len(q) = n - 1 },
                               x \in S }

\* Vertex positions, envelope weights (vertex index, weight) and faces.
VectorInputs == { << 0, 0, 0 >>, << 1, 2, 3 >> }
WeightInputs == { << 0, 1 >>, << 7, 0 >> }
FaceInputs == { << >>, << 5 >>, << 0, 1, 2 >>, << 3, 2, 1, 0 >> }

ListInputs ==
    { [ kind |-> "vector", t |-> t, format |-> <<"f", "f", "f">>, items |-> v ] :
        t \in {0, 2}, v \in SeqsUpTo(VectorInputs, MaxLen) }
    \cup
    { [ kind |-> "vector", t |-> t, format |-> <<"d", "f">>, items |-> v ] :
        t \in {1}, v \in SeqsUpTo(WeightInputs, MaxLen) }
    \cup
    { [ kind |-> "face", t |-> t, format |-> <<>>, items |-> f ] :
        t \in {1, 2}, f \in SeqsUpTo(FaceInputs, MaxLen) }

InitLists ==
    /\ DUPLICATE_FRAME_NOEXCEPT = FALSE
    /\ InitGraph
    /\ file = <<>>
    /\ readback = <<>>
    /\ animkey = <<>>
    /\ listin \in ListInputs
    /\ mesh = <<>>

CallWriteVectorList ==
    /\ listin.kind = "vector"
    /\ file' = WriteVectorList(listin.t, listin.format, listin.items)
    /\ result' = [ op |-> "write_vector_list", indexed |-> FALSE ]
    /\ UNCHANGED <<graphvars, readback, animkey, listin, mesh>>

CallWriteFaceList(indexed) ==
    /\ listin.kind = "face"
    /\ file' = WriteFaceList(listin.t, listin.items, indexed)
    /\ result' = [ op |-> "write_face_list", indexed |-> indexed ]
    /\ UNCHANGED <<graphvars, readback, animkey, listin, mesh>>

NextLists ==
    \/ CallWriteVectorList
    \/ \E indexed \in BOOLEAN : CallWriteFaceList(indexed)

SpecLists == InitLists /\ [][NextLists]_vars

Last(s) == s[Len(s)]

\* The rendering of element i of the list under test, without the prefix
\* and the terminator.
ElementText(i) ==
    IF listin.kind = "vector" THEN Fmt(listin.format, listin.items[i])
    ELSE <<FmtD(Len(listin.items[i])), ";">>
         \o Join([ k \in DOMAIN listin.items[i] |-> FmtD(listin.items[i][k]) ], ",")
         \o <<";">>

\* C6: a list of length L is written as the count line "L;" followed by
\* exactly L element lines at the same indent; the first L-1 end with a
\* comma and the last with a semicolon; in indexed mode element line i
\* (from 0) starts with "i;"; for L = 0 only "0;" is written.
C6_TerminatorRule ==
    result.op \in {"write_vector_list", "write_face_list"} =>
        LET L == Len(listin.items) IN
        /\ Len(file) = L + 1
        /\ file[1] = [ t |-> listin.t, data |-> <<ToString(L), ";">> ]
        /\ \A i \in 1..L :
              LET line == file[i + 1].data
                  text == AllButLast(line)
              IN  /\ file[i + 1].t = listin.t
                  /\ Last(line) = (IF i < L THEN "," ELSE ";")
                  /\ IF result.indexed
                     THEN /\ text[1] = ToString(i - 1)
                          /\ text[2] = ";"
                          /\ SubSeq(text, 3, Len(text)) = ElementText(i)
                     ELSE text = ElementText(i)

C6_Witness ==
    /\ result.op = "write_face_list"
    /\ result.indexed
    /\ Len(listin.items) = MaxLen
    /\ Len(file) = MaxLen + 1
    /\ Last(file[MaxLen + 1].data) = ";"


-----------------------------------------------------------------------------
(* Meshes handed to get_material_indices and write_mesh.                   *)

MaxFaces == 2
MaxFaceMaterials == 3
MaxColors == 2

\* Three materials: the defaults, the defaults with a texture, and the
\* defaults with another hardness.
MaterialInputs ==
    { Material(<<7, 7, 7, 1>>, 200, <<3, 3, 3>>, <<5, 5, 5>>, <<0, 0, 0>>, 2, None),
      Material(<<7, 7, 7, 1>>, 200, <<3, 3, 3>>, <<5, 5, 5>>, <<0, 0, 0>>, 2,
               Ref("wood.png")),
      Material(<<7, 7, 7, 1>>, 100, <<3, 3, 3>>, <<5, 5, 5>>, <<0, 0, 0>>, 2, None) }

VertexListInputs == { <<>>, << <<0, 0, 0>>, <<1, 0, 0>>, <<0, 1, 0>> >> }
MeshFaceInputs == { <<0, 1, 2>>, <<2, 1, 0>> }
ColorInputs == { <<1, 0, 0, 1>>, <<0, 1, 0, 1>> }
\* Faces into a colour list of n entries: every index is valid.
ColorFaceInputs(n) ==
    { f \in { <<0>>, <<0, 0, 0>>, <<0, 1>>, <<1, 0, 1>> } :
        \A i \in DOMAIN f : f[i] < n }

MeshInputs ==
    { [ Mesh(<<"m">>) EXCEPT !.vertices = v, !.faces = f, !.face_materials = fm ] :
        v \in VertexListInputs,
        f \in SeqsUpTo(MeshFaceInputs, MaxFaces),
        fm \in SeqsUpTo(MaterialInputs, MaxFaceMaterials) }
    \cup
    UNION { { [ Mesh(None) EXCEPT !.vertices = v, !.vertex_colors = vc,
                                  !.vertex_color_faces = cf ] :
                v \in VertexListInputs,
                cf \in SeqsUpTo(ColorFaceInputs(Len(vc)), MaxFaces) } :
            vc \in SeqsUpTo(ColorInputs, MaxColors) }
    \cup
    { [ Mesh(None) EXCEPT !.vertices = << <<0, 0, 0>> >>, !.faces = << <<0>> >>,
                          !.normal_vertices = nv, !.normal_faces = nf,
                          !.uv_vertices = uv, !.uv_faces = uf ] :
        nv \in { <<>>, << <<0, 0, 1>> >> }, nf \in { <<>>, << <<0>> >> },
        uv \in { <<>>, << <<0, 1>> >> }, uf \in { <<>>, << <<0>> >> } }

InitMesh ==
    /\ DUPLICATE_FRAME_NOEXCEPT = FALSE
    /\ InitGraph
    /\ file = <<>>
    /\ readback = <<>>
    /\ animkey = <<>>
    /\ listin = <<>>
    /\ mesh \in MeshInputs

CallGetMaterialIndices ==
    /\ result' = [ op |-> "get_material_indices", ret |-> GetMaterialIndices(mesh) ]
    /\ UNCHANGED <<graphvars, file, readback, animkey, listin, mesh>>

\* write_mesh as write_frame calls it: under the mesh's name, or the
\* frame's when the mesh has none.
CallWriteMesh ==
    /\ file' = WriteMesh(1, mesh, IF mesh.name # None THEN mesh.name ELSE <<"a">>)
    /\ result' = [ op |-> "write_mesh", ret |-> None ]
    /\ UNCHANGED <<graphvars, readback, animkey, listin, mesh>>

NextMesh ==
    \/ CallGetMaterialIndices
    \/ CallWriteMesh

SpecMesh == InitMesh /\ [][NextMesh]_vars

\* The structurally distinct materials of face_materials.
DistinctMaterials == Range(mesh.face_materials)

FirstAt(material) ==
    CHOOSE i \in DOMAIN mesh.face_materials :
        /\ mesh.face_materials[i] = material
        /\ \A j \in DOMAIN mesh.face_materials :
              mesh.face_materials[j] = material => i <= j

\* What get_material_indices must return for a list of n face materials,
\* said without running it.
DedupCorrect(got, n) ==
    LET k == Cardinality(DistinctMaterials)
        materials == got.materials
        indices == got.indices
    IN  /\ Len(materials) = k
        /\ Range(materials) = DistinctMaterials
        /\ \A i, j \in DOMAIN materials :
              i < j => /\ materials[i] # materials[j]
                       /\ FirstAt(materials[i]) < FirstAt(materials[j])
        /\ Len(indices) = n
        /\ \A i \in DOMAIN indices :
              /\ indices[i] \in 0..(k - 1)
              /\ i \in DOMAIN mesh.face_materials
              /\ materials[indices[i] + 1] = mesh.face_materials[i]

LinesWith(data) == { p \in DOMAIN file : file[p].data = data }

\* The written MeshMaterialList block declares k materials and n face
\* indices, lists n indices below k with the list terminators, and holds
\* exactly k SI_Material blocks.
MaterialListWritten(k, n) ==
    /\ Cardinality(LinesWith(<<"MeshMaterialList", " {">>)) = 1
    /\ LET p == CHOOSE q \in DOMAIN file : file[q].data = <<"MeshMaterialList", " {">>
       IN  /\ p + 2 + n <= Len(file)
           /\ file[p + 1].data = <<ToString(k), ";">>
           /\ file[p + 2].data = <<ToString(n), ";">>
           /\ \A i \in 1..n :
                 /\ Len(file[p + 2 + i].data) = 2
                 /\ \E x \in 0..(k - 1) : file[p + 2 + i].data[1] = ToString(x)
                 /\ file[p + 2 + i].data[2] = (IF i < n THEN "," ELSE ";")
           /\ n > 0 => file[p + 3 + n].data = <<"SI_Material", " {">>
    /\ Cardinality(LinesWith(<<"SI_Material", " {">>)) = k

NoMaterialListWritten ==
    /\ LinesWith(<<"MeshMaterialList", " {">>) = {}
    /\ LinesWith(<<"SI_Material", " {">>) = {}

\* C5 as stated: for a mesh with N faces whose face_materials hold k <= N
\* distinct materials, get_material_indices returns the k materials and
\* one index per face, and write_mesh emits a MeshMaterialList with count
\* k, N indices and k SI_Material blocks.
C5_AsStated ==
    Cardinality(DistinctMaterials) <= Len(mesh.faces) =>
        /\ result.op = "get_material_indices"
              => DedupCorrect(result.ret, Len(mesh.faces))
        /\ result.op = "write_mesh"
              => MaterialListWritten(Cardinality(DistinctMaterials), Len(mesh.faces))

\* C5, amended: get_material_indices returns the k distinct materials in
\* first-encounter order and one index below k per face_materials entry,
\* each naming its entry's material; write_mesh emits the MeshMaterialList
\* (count k, one index per face_materials entry, k SI_Material blocks) when
\* the mesh has a vertex, a face and a face material, and otherwise emits
\* no MeshMaterialList and no SI_Material block.
C5_MaterialDedup ==
    /\ result.op = "get_material_indices"
          => DedupCorrect(result.ret, Len(mesh.face_materials))
    /\ result.op = "write_mesh" =>
          IF mesh.vertices # <<>> /\ mesh.faces # <<>> /\ mesh.face_materials # <<>>
          THEN MaterialListWritten(Cardinality(DistinctMaterials),
                                   Len(mesh.face_materials))
          ELSE NoMaterialListWritten

C5_Witness ==
    /\ result.op = "write_mesh"
    /\ mesh.vertices # <<>>
    /\ Len(mesh.faces) = 2
    /\ Len(mesh.face_materials) = 3
    /\ Cardinality(DistinctMaterials) = 2
    /\ mesh.face_materials[1] = mesh.face_materials[3]
    /\ Cardinality(LinesWith(<<"SI_Material", " {">>)) = 2

\* The element lines of the vertex list of the SI_MeshVertexColors block:
\* the lines after its count line, up to the count line of the face list.
VertexColorBlock == CHOOSE p \in DOMAIN file : file[p].data = <<"SI_MeshVertexColors", " {">>

VertexColorLines ==
    LET p == VertexColorBlock
        stop == CHOOSE q \in (p + 2)..Len(file) :
                    /\ Len(file[q].data) = 2
                    /\ \A r \in (p + 2)..(q - 1) : Len(file[r].data) # 2
    IN  (p + 2)..(stop - 1)

\* C10: the vertex list of a written SI_MeshVertexColors block has as many
\* element lines as its count line says, all of them but the last ending
\* with a comma and the last with a semicolon.
C10_VertexColorList ==
    (result.op = "write_mesh" /\ LinesWith(<<"SI_MeshVertexColors", " {">>) # {}) =>
        LET p == VertexColorBlock
            rows == VertexColorLines
        IN  /\ file[p + 1].data = <<ToString(Cardinality(rows)), ";">>
            /\ \A r \in rows :
                  Last(file[r].data) = (IF r + 1 \in rows THEN "," ELSE ";")


-----------------------------------------------------------------------------
(* One AnimationKey track: construction, add_key, write_animationkeys.     *)

MaxKeys == 2

\* AnimationKey.TYPE_SIZE, indexed from key type 0.
TYPE_SIZE == <<4, 3, 3, 3>>

KeyTypeInputs == (0 - 1)..4
KeyframeInputs == {0, 9}
\* Vectors of 2 to 5 components.
KeyVectorInputs == { [ i \in 1..n |-> v ] : n \in 2..5, v \in {1} }

\* AnimationKey.__init__, line 327: key_type in range(4)
ValidKeyType(key_type) == key_type \in 0..3

\* AnimationKey.__init__ for a valid key type.
AnimationKey(key_type) ==
    [ key_type |-> key_type, keys |-> <<>>, vector_size |-> TYPE_SIZE[key_type + 1] ]

\* The mutant of WidthMismatch: only a vector that is too long is refused.
WidthMismatchTooLongOnly(track, vector) == Len(vector) > track.vector_size

\* add_key, line 335
WidthMismatch(track, vector) == Len(vector) # track.vector_size

InitAnim ==
    /\ DUPLICATE_FRAME_NOEXCEPT = FALSE
    /\ InitGraph
    /\ file = <<>>
    /\ readback = <<>>
    /\ animkey = None
    /\ listin = <<>>
    /\ mesh = <<>>

\* AnimationKey(key_type)
NewAnimationKey(key_type) ==
    /\ animkey = None
    /\ IF ValidKeyType(key_type)
       THEN /\ animkey' = Ref(AnimationKey(key_type))
            /\ result' = [ op |-> "AnimationKey", key_type |-> key_type,
                           raised |-> "" ]
       ELSE /\ animkey' = animkey
            /\ result' = [ op |-> "AnimationKey", key_type |-> key_type,
                           raised |-> "ValueError" ]
    /\ UNCHANGED <<graphvars, file, readback, listin, mesh>>

\* AnimationKey.add_key(keyframe, vector)
AddKey(keyframe, vector) ==
    /\ animkey # None
    /\ (WidthMismatch(animkey[1], vector) \/ Len(animkey[1].keys) < MaxKeys)
    /\ IF WidthMismatch(animkey[1], vector)
       THEN /\ animkey' = animkey
            /\ result' = [ op |-> "add_key", keyframe |-> keyframe,
                           vector |-> vector, raised |-> "ValueError",
                           ret |-> None ]
       ELSE /\ animkey' = Ref([ animkey[1] EXCEPT
                                  !.keys = Append(@, <<keyframe, vector>>) ])
            /\ result' = [ op |-> "add_key", keyframe |-> keyframe,
                           vector |-> vector, raised |-> "",
                           ret |-> Ref(<<keyframe, vector>>) ]
    /\ UNCHANGED <<graphvars, file, readback, listin, mesh>>

\* Writer.write_animationkeys on the track's keys.
CallWriteAnimationKeys ==
    /\ animkey # None
    /\ IF AnimationKeysWritable(animkey[1].keys)
       THEN /\ file' = WriteAnimationKeys(2, animkey[1].keys)
            /\ result' = [ op |-> "write_animationkeys", raised |-> "" ]
       ELSE /\ file' = <<W(2, <<FmtD(Len(animkey[1].keys)), ";">>)>>
            /\ result' = [ op |-> "write_animationkeys", raised |-> "TypeError" ]
    /\ UNCHANGED <<graphvars, readback, animkey, listin, mesh>>

NextAnim ==
    \/ \E key_type \in KeyTypeInputs : NewAnimationKey(key_type)
    \/ \E keyframe \in KeyframeInputs, vector \in KeyVectorInputs :
          AddKey(keyframe, vector)
    \/ CallWriteAnimationKeys

SpecAnim == InitAnim /\ [][NextAnim]_vars

\* Every stored key has the width the track's type fixes.
KeysHaveFixedWidth ==
    animkey # None =>
        /\ animkey[1].key_type \in {0, 1, 2, 3}
        /\ animkey[1].vector_size = (IF animkey[1].key_type = 0 THEN 4 ELSE 3)
        /\ \A k \in DOMAIN animkey[1].keys :
              Len(animkey[1].keys[k][2]) = animkey[1].vector_size

ConstructionChecked ==
    result'.op = "AnimationKey" =>
        IF result'.key_type \in {0, 1, 2, 3}
        THEN /\ result'.raised = ""
             /\ animkey' # None
             /\ animkey'[1].key_type = result'.key_type
             /\ animkey'[1].keys = <<>>
        ELSE /\ result'.raised = "ValueError"
             /\ animkey' = None

AddKeyChecked ==
    (result'.op = "add_key" /\ animkey # None) =>
        IF Len(result'.vector) = (IF animkey[1].key_type = 0 THEN 4 ELSE 3)
        THEN /\ result'.raised = ""
             /\ animkey'[1].keys
                   = Append(animkey[1].keys, <<result'.keyframe, result'.vector>>)
        ELSE /\ result'.raised = "ValueError"
             /\ animkey' = animkey

\* C8: AnimationKey(t) fails for t outside {0,1,2,3}; add_key with a vector
\* whose length is not the track's width (4 for type 0, 3 for types 1-3)
\* fails and leaves the key list unchanged, and one of the right length is
\* appended at the end; so every stored key has the track's width, the
\* keys are in insertion order, and write_animationkeys can format them.
C8_VectorWidth ==
    /\ []KeysHaveFixedWidth
    /\ [](result.op = "write_animationkeys" => result.raised = "")
    /\ [][ConstructionChecked]_vars
    /\ [][AddKeyChecked]_vars

C8_Witness ==
    /\ animkey # None
    /\ animkey[1].key_type = 0
    /\ Len(animkey[1].keys) = 2
    /\ animkey[1].keys[1][1] > animkey[1].keys[2][1]
    /\ result.op = "add_key"
    /\ result.raised = "ValueError"
    /\ Len(result.vector) = 3


-----------------------------------------------------------------------------
(* A whole document: frames, animation tracks and envelopes added through  *)
(* the scene-graph operations, then written, then read back.               *)

MaxTracks == 2
MaxEnvelopes == 1

DocKeyTypeInputs == {2}

TotalTracks == SumLen([ i \in DOMAIN frames |-> frames[i].animation_keys ])
TotalEnvelopes == SumLen([ i \in DOMAIN frames |-> frames[i].envelopes ])

\* Frame.add_animationkey(key_type): the AnimationKey constructor raises
\* before anything is appended.
AddAnimationkey(self, key_type) ==
    /\ file = <<>>
    /\ IF ValidKeyType(key_type)
       THEN /\ TotalTracks < MaxTracks
            /\ frames' = [ frames EXCEPT ![self].animation_keys =
                                Append(@, AnimationKey(key_type)) ]
       ELSE /\ frames' = frames
    /\ UNCHANGED <<DUPLICATE_FRAME_NOEXCEPT, xsi_frames, frame_table, result,
                   idlevars>>

\* Frame.add_envelope(bone), bone a Frame of the graph.
AddEnvelope(self, bone) ==
    /\ file = <<>>
    /\ TotalEnvelopes < MaxEnvelopes
    /\ frames' = [ frames EXCEPT ![self].envelopes = Append(@, Envelope(bone)) ]
    /\ UNCHANGED <<DUPLICATE_FRAME_NOEXCEPT, xsi_frames, frame_table, result,
                   idlevars>>

\* XSI.write: Writer(self, f) runs write_xsi on the finished graph.
Write ==
    /\ file = <<>>
    /\ file' = WriteXsi(frames, xsi_frames)
    /\ UNCHANGED <<graphvars, result, readback, animkey, listin, mesh>>

\* --- Reader: not defined in blend2xsi.py; modelled from the design text ---

ParseInt(token) == CHOOSE n \in 0..9 : ToString(n) = token

IsOpen(data) == Len(data) >= 2 /\ Last(data) = " {"

InnermostFrame(stack) ==
    IF stack # <<>> /\ Last(stack)[1] = "Frame" THEN Ref(Last(stack)[2]) ELSE None

\* One line of the text, applied to the reader's state.
ReadLine(lines, i, st) ==
    LET data == lines[i].data IN
    IF data = <<>> THEN st
    ELSE IF IsOpen(data) /\ data[1] = "Frame "
    THEN LET name == SubSeq(data, 3, Len(data) - 1)
             id == Len(st.frames) + 1
             parent == InnermostFrame(st.stack)
             frame == [ Frame(name) EXCEPT !.parent = parent ]
             grown == Append(st.frames, frame)
         IN  IF name \in DOMAIN st.frame_table
             THEN [ st EXCEPT !.raised = "DuplicateFrame" ]
             ELSE [ st EXCEPT
                      !.frames = IF parent = None THEN grown
                                 ELSE [ grown EXCEPT ![parent[1]].frames = Append(@, id) ],
                      !.xsi_frames = IF parent = None THEN Append(@, id) ELSE @,
                      !.frame_table = TablePut(@, name, id),
                      !.stack = Append(@, <<"Frame", id>>) ]
    ELSE IF IsOpen(data) /\ data[1] = "SI_AnimationKey"
    THEN LET target == Last(st.stack)[2]
             track == [ key_type |-> ParseInt(lines[i + 1].data[1]),
                        nkeys |-> ParseInt(lines[i + 2].data[1]) ]
         IN  [ st EXCEPT !.frames[target].animation_keys = Append(@, track),
                         !.stack = Append(@, <<"SI_AnimationKey", 0>>) ]
    ELSE IF IsOpen(data) /\ data[1] = "SI_Envelope"
    THEN LET skinned == SubSeq(lines[i + 1].data, 3, Len(lines[i + 1].data) - 2)
             bone == SubSeq(lines[i + 2].data, 3, Len(lines[i + 2].data) - 2)
         IN  IF skinned \notin DOMAIN st.frame_table \/ bone \notin DOMAIN st.frame_table
             THEN [ st EXCEPT !.raised = "UnresolvedReferenceError" ]
             ELSE [ st EXCEPT
                      !.frames[st.frame_table[skinned]].envelopes =
                          Append(@, Envelope(st.frame_table[bone])),
                      !.stack = Append(@, <<"SI_Envelope", 0>>) ]
    ELSE IF IsOpen(data)
    THEN [ st EXCEPT !.stack = Append(@, <<data[1], 0>>) ]
    ELSE IF data[1] = "{"
    THEN LET name == SubSeq(data, 3, Len(data) - 1) IN
         IF name \notin DOMAIN st.frame_table
         THEN [ st EXCEPT !.raised = "UnresolvedReferenceError" ]
         ELSE [ st EXCEPT !.stack = Append(AllButLast(@),
                                           <<"Animation ", st.frame_table[name]>>) ]
    ELSE IF data[1] = "}"
    THEN [ st EXCEPT !.stack = AllButLast(@) ]
    ELSE st

RECURSIVE ReadLines(_, _, _)
ReadLines(lines, i, st) ==
    IF i > Len(lines) \/ st.raised # "" THEN st
    ELSE ReadLines(lines, i + 1, ReadLine(lines, i, st))

\* Reader on a fresh XSI: the graph built from the text, or the error.
ReadXsi(lines) ==
    LET st == ReadLines(lines, 1,
                  [ frames |-> <<>>, xsi_frames |-> <<>>, frame_table |-> << >>,
                    stack |-> <<>>, raised |-> "" ])
    IN  [ raised |-> st.raised, frames |-> st.frames,
          xsi_frames |-> st.xsi_frames, frame_table |-> st.frame_table ]

\* XSI.read / read() on the file just written.
Read ==
    /\ file # <<>>
    /\ readback = None
    /\ readback' = Ref(ReadXsi(file))
    /\ UNCHANGED <<graphvars, result, file, animkey, listin, mesh>>

InitDoc ==
    /\ DUPLICATE_FRAME_NOEXCEPT = FALSE
    /\ InitGraph
    /\ InitIdle

\* The names the document's frames are given, in creation order: two that
\* differ only in a character outside the allow-list, the empty name, and a
\* clean one.
DocNames == << <<"a", " ">>, <<"a", "_">>, <<>>, <<"a">> >>

NextDoc ==
    \/ \E self \in Containers :
          /\ file = <<>>
          /\ Len(frames) < Len(DocNames)
          /\ AddFrame(self, DocNames[Len(frames) + 1])
          /\ UNCHANGED idlevars
    \/ \E self \in DOMAIN frames, key_type \in DocKeyTypeInputs :
          AddAnimationkey(self, key_type)
    \/ \E self \in DOMAIN frames, bone \in DOMAIN frames : AddEnvelope(self, bone)
    \/ Write

SpecDoc == InitDoc /\ [][NextDoc]_vars

\* The same documents, each then read back.
NextRoundTrip ==
    \/ NextDoc
    \/ Read

SpecRoundTrip == InitDoc /\ [][NextRoundTrip]_vars


-----------------------------------------------------------------------------
(* Properties of the written document.                                     *)

IndexIn(list, x) == CHOOSE k \in DOMAIN list : list[k] = x

\* The position of a frame in the forest: the child indices from the root
\* down to it, by the parent links.
RECURSIVE PathOf(_)
PathOf(id) ==
    IF frames[id].parent = None THEN << IndexIn(xsi_frames, id) >>
    ELSE Append(PathOf(frames[id].parent[1]),
                IndexIn(frames[frames[id].parent[1]].frames, id))

Paths == <<>> \o [ id \in DOMAIN frames |-> PathOf(id) ]

IsProperPrefix(p, q) == Len(p) < Len(q) /\ SubSeq(q, 1, Len(p)) = p

\* Pre-order: an ancestor before its descendants, siblings and their
\* subtrees in child-list order.
LexLess(p, q) ==
    \/ IsProperPrefix(p, q)
    \/ \E i \in 1..Len(p) :
          /\ i <= Len(q)
          /\ SubSeq(p, 1, i - 1) = SubSeq(q, 1, i - 1)
          /\ p[i] < q[i]

\* The frames of S in pre-order, by their paths.
RECURSIVE InPreOrder(_, _)
InPreOrder(path, S) ==
    IF S = {} THEN <<>>
    ELSE LET first == CHOOSE x \in S : \A y \in S \ {x} : LexLess(path[x], path[y])
         IN  <<first>> \o InPreOrder(path, S \ {first})

Animated == { id \in DOMAIN frames : frames[id].animation_keys # <<>> }
Skinned == { id \in DOMAIN frames : frames[id].envelopes # <<>> }

\* The (skinned frame, envelope) pairs: frames in pre-order, each frame's
\* envelopes in list order.
EnvelopePairs(order) ==
    Cat([ k \in DOMAIN order |->
            [ e \in DOMAIN frames[order[k]].envelopes |->
                <<order[k], frames[order[k]].envelopes[e].bone>> ] ])

\* The numbers of the lines whose first token is the one given, ascending.
LinesStarting(token) ==
    SelectSeq([ i \in DOMAIN file |-> i ],
              LAMBDA p : file[p].data # <<>> /\ file[p].data[1] = token)

\* The line closing the block opened at line p: the next "}" at its indent,
\* or 0 if none is. closes: the "}" lines, ascending.
CloseOf(closes, p) ==
    LET later == SelectSeq(closes, LAMBDA q : /\ q > p
                                              /\ file[q].t = file[p].t
                                              /\ file[q].data = <<"}">>)
    IN  IF later = <<>> THEN 0 ELSE later[1]

Identifier(id) == <<"frm-">> \o SafeName(frames[id].name)

\* The header and the three fixed blocks, once each, before anything else.
PreambleFirst ==
    LET fixed == { "xsi 0101txt 0032", "SI_CoordinateSystem coord",
                   "SI_Angle", "SI_Ambience" }
    IN  /\ file[1].data[1] = "xsi 0101txt 0032"
        /\ file[2].data[1] = "SI_CoordinateSystem coord"
        /\ file[10].data[1] = "SI_Angle"
        /\ file[13].data[1] = "SI_Ambience"
        /\ \A p \in DOMAIN file :
              (p > 15 /\ file[p].data # <<>>) => file[p].data[1] \notin fixed

\* order: the frames in pre-order; lines: the Frame lines, ascending.
FrameBlocksNested(path, order, lines, closes) ==
    /\ Len(lines) = Len(frames)
    /\ \A k \in DOMAIN order :
          LET id == order[k]
              p == lines[k]
              close == CloseOf(closes, p)
          IN  /\ file[p] = W(Len(path[id]) - 1,
                             <<"Frame ">> \o Identifier(id) \o <<" {">>)
              /\ close > p
              /\ frames[id].parent = None => file[p - 1] = W(0, <<>>)
              /\ \A j \in DOMAIN order :
                    IsProperPrefix(path[id], path[order[j]])
                    <=> (p < lines[j] /\ lines[j] < close)

\* animated: the animated frames in pre-order; sets: the AnimationSet
\* lines; lines: the Animation lines.
AnimationSetWritten(animated, sets, lines, closes) ==
    LET tracks == Range(LinesStarting("SI_AnimationKey")) IN
    /\ Len(sets) = (IF Animated # {} THEN 1 ELSE 0)
    /\ Len(lines) = Cardinality(Animated)
    /\ \A k \in DOMAIN animated :
          LET id == animated[k]
              p == lines[k]
          IN  /\ file[sets[1]] = W(0, <<"\n", "AnimationSet", " {">>)
              /\ file[p] = W(1, <<"Animation ", "anim-">>
                                \o SafeName(frames[id].name) \o <<" {">>)
              /\ file[p + 1] = W(2, <<"{">> \o Identifier(id) \o <<"}">>)
              /\ sets[1] < p /\ CloseOf(closes, p) < CloseOf(closes, sets[1])
              /\ Cardinality({ q \in tracks :
                                 p < q /\ q < CloseOf(closes, p) })
                    = Len(frames[id].animation_keys)

\* pairs: the (skinned frame, bone) pairs in order; lists: the
\* SI_EnvelopeList lines; lines: the SI_Envelope lines.
EnvelopeListWritten(pairs, lists, lines, closes) ==
    /\ Len(lists) = (IF Skinned # {} THEN 1 ELSE 0)
    /\ Len(lines) = Len(pairs)
    /\ \A k \in DOMAIN pairs :
          LET p == lines[k] IN
          /\ file[lists[1]] = W(0, <<"\n", "SI_EnvelopeList", " {">>)
          /\ file[lists[1] + 1] = W(1, <<ToString(Len(pairs)), ";">>)
          /\ file[p + 1] = W(2, <<"\"">> \o Identifier(pairs[k][1]) \o <<"\"", ";">>)
          /\ file[p + 2] = W(2, <<"\"">> \o Identifier(pairs[k][2]) \o <<"\"", ";">>)
          /\ lists[1] < p /\ CloseOf(closes, p) < CloseOf(closes, lists[1])

SectionsInOrder(frameLines, sets, animations, lists, envelopes, closes) ==
    /\ \A f \in Range(frameLines), a \in Range(sets) \cup Range(lists) :
          f < a /\ CloseOf(closes, f) < a
    /\ \A a \in Range(sets) \cup Range(animations), e \in Range(lists) :
          a < e /\ CloseOf(closes, a) < e
    /\ \A e \in Range(envelopes), a \in Range(sets) : CloseOf(closes, a) < e

BlocksNamed(ident) ==
    { q \in Range(LinesStarting("Frame ")) :
        SubSeq(file[q].data, 2, Len(file[q].data) - 1) = ident }

\* C9: in a document written from a graph with unique frame names, the
\* identifier referenced by each Animation block and by both name fields of
\* each SI_Envelope record is the identifier of exactly one Frame block,
\* the one written for the frame that owns the track (respectively for the
\* skinned frame and for the bone).
C9_JoinKey ==
    (file # <<>> /\ TableOnePerName) =>
        LET order == InPreOrder(Paths, DOMAIN frames)
            frameLines == LinesStarting("Frame ")
            blockOf(id) == frameLines[IndexIn(order, id)]
            animated == InPreOrder(Paths, Animated)
            animations == LinesStarting("Animation ")
            pairs == EnvelopePairs(order)
            envelopes == LinesStarting("SI_Envelope")
        IN  /\ \A k \in DOMAIN animated :
                  LET ref == file[animations[k] + 1].data
                  IN  BlocksNamed(SubSeq(ref, 2, Len(ref) - 1)) = { blockOf(animated[k]) }
            /\ \A k \in DOMAIN pairs :
                  LET skinned == file[envelopes[k] + 1].data
                      bone == file[envelopes[k] + 2].data
                  IN  /\ BlocksNamed(SubSeq(skinned, 2, Len(skinned) - 2))
                            = { blockOf(pairs[k][1]) }
                      /\ BlocksNamed(SubSeq(bone, 2, Len(bone) - 2))
                            = { blockOf(pairs[k][2]) }

\* C4: reading a written document back yields a graph with the same frame
\* names, the same parent/child structure, the same animation track types
\* and key counts and the same envelope bone references.
C4_RoundTrip ==
    readback # None =>
        LET rb == readback[1]
            a == GetAllFrames(frames, xsi_frames)
            b == GetAllFrames(rb.frames, rb.xsi_frames)
        IN  /\ rb.raised = ""
            /\ Len(a) = Len(b)
            /\ Len(rb.xsi_frames) = Len(xsi_frames)
            /\ \A k \in DOMAIN a :
                  LET f == frames[a[k]]
                      g == rb.frames[b[k]]
                  IN  /\ g.name = f.name
                      /\ Len(g.frames) = Len(f.frames)
                      /\ (g.parent = None) <=> (f.parent = None)
                      /\ f.parent # None
                            => IndexIn(b, g.parent[1]) = IndexIn(a, f.parent[1])
                      /\ Len(g.animation_keys) = Len(f.animation_keys)
                      /\ \A i \in DOMAIN f.animation_keys :
                            /\ g.animation_keys[i].key_type = f.animation_keys[i].key_type
                            /\ g.animation_keys[i].nkeys = Len(f.animation_keys[i].keys)
                      /\ Len(g.envelopes) = Len(f.envelopes)
                      /\ \A i \in DOMAIN f.envelopes :
                            IndexIn(b, g.envelopes[i].bone) = IndexIn(a, f.envelopes[i].bone)

=============================================================================
